---------------------------- MODULE Spec2Model ----------------------------
(***************************************************************************)
(* Model of diaspora-server's request-to-operation translation layer.      *)
(*                                                                         *)
(*   src/src/apiGenerator.ts   ApiGenerator: the binding table built by    *)
(*                             the constructor, and the static parseQuery  *)
(*   src/unnamed/part_000      the express router: the local parseQuery,   *)
(*                             the eight verb handlers, route registration *)
(*                             and the discovery document                  *)
(*                                                                         *)
(* Three specifications share the module:                                  *)
(*   SpecParse   ApiGenerator.parseQuery applied to a query mapping, and   *)
(*               applied again to its JSON-re-encoded result               *)
(*   SpecConfig  configuration, route resolution and the discovery         *)
(*               document                                                  *)
(*   Spec        the eight verb handlers running against one bound model   *)
(*                                                                         *)
(* JavaScript values are tagged records, so that a string never equals a   *)
(* number and JSON.parse / JSON.stringify are real conversions.  Objects   *)
(* are functions whose DOMAIN is the set of own keys.                      *)
(***************************************************************************)
EXTENDS Integers, Sequences, FiniteSets, TLC

VARIABLES
    \* SpecParse
    pq,          \* the query mapping handed to ApiGenerator.parseQuery
    pstage,      \* "input" | "parsed" | "reparsed"
    pres,        \* result of the first parse
    pres2,       \* result of parsing the re-encoded first result
    \* SpecConfig
    cfg,         \* configHash.models
    cfgState,    \* "unconfigured" | "ready" | "failed"
    bindings,    \* _modelsConfiguration: model name -> {singular, plural, model}
    routed,      \* the route the last request path resolved to
    discovery,   \* the discovery document last returned by GET ''
    \* Spec
    store,       \* persisted entities of the bound model
    nextId,      \* next identifier the data source hands out
    store0,      \* the store when the current request arrived (history)
    req,         \* the request being handled
    pc,          \* "idle" | "routed" | "awaiting" | "settled" | "done"
    cont,        \* the .then callback waiting for the pending promise
    call,        \* the pending model-layer call
    result,      \* how the pending call settled
    held,        \* entities the handler holds in memory (found, then mutated)
    responses,   \* responses written for the current request, in order
    ops          \* model-layer calls made for the current request (history)

parseVars  == <<pq, pstage, pres, pres2>>
configVars == <<cfg, cfgState, bindings, routed, discovery>>
reqVars    == <<store, nextId, store0, req, pc, cont, call, result, held, responses, ops>>
vars       == <<parseVars, configVars, reqVars>>

--------------------------------------------------------------------------
(* JavaScript values *)

Num(n) == [t |-> "num", n |-> n]
Str(s) == [t |-> "str", s |-> s]
Obj(o) == [t |-> "obj", o |-> o]
Arr(a) == [t |-> "arr", a |-> a]
Null   == [t |-> "null"]
\* what JSON.parse throws
SyntaxError == [t |-> "SyntaxError"]

EmptyObject == [k \in {} |-> Null]

IsObj(v) == v.t = "obj"

\* _.pick(o, keys) and _.omit(o, keys) on own keys
pick(o, keys) == [k \in (DOMAIN o) \cap keys |-> o[k]]
omit(o, keys) == [k \in (DOMAIN o) \ keys |-> o[k]]

\* Order in which the members of an object are written out.
KeyOrder == <<"id", "skip", "limit", "sort", "page", "where", "query", "foo", "name", "age">>

FirstKey(ks) ==
    LET i == CHOOSE i \in 1..Len(KeyOrder) :
                 /\ KeyOrder[i] \in ks
                 /\ \A j \in 1..(i - 1) : KeyOrder[j] \notin ks
    IN  KeyOrder[i]

RECURSIVE JSONstringify(_), StringifyMembers(_, _)
\* JSON.stringify on the values of the model
JSONstringify(v) ==
    CASE v.t = "num"  -> ToString(v.n)
      [] v.t = "str"  -> "\"" \o v.s \o "\""
      [] v.t = "null" -> "null"
      [] v.t = "obj"  -> "{" \o StringifyMembers(v.o, DOMAIN v.o) \o "}"

StringifyMembers(o, ks) ==
    IF ks = {} THEN ""
    ELSE LET k == FirstKey(ks)
         IN  "\"" \o k \o "\":" \o JSONstringify(o[k])
                 \o (IF ks \ {k} = {} THEN "" ELSE "," \o StringifyMembers(o, ks \ {k}))

\* JSON.parse on the texts of the model: insignificant white space is
\* dropped, numbers, strings, null and objects are typed, anything that is
\* not JSON throws.
JSONparse(text) ==
    CASE text = "5"      -> Num(5)
      [] text = " 5 "    -> Num(5)
      [] text = "1"      -> Num(1)
      [] text = "\"x\""  -> Str("x")
      [] text = "null"   -> Null
      [] text = "{}"     -> Obj(EmptyObject)
      [] text = "{ }"    -> Obj(EmptyObject)
      [] text = "{\"name\":\"x\"}"  -> Obj([name |-> Str("x")])
      [] text = "{\"name\":\"b\"}"  -> Obj([name |-> Str("b")])
      [] text = "{\"skip\":5}"      -> Obj([skip |-> Num(5)])
      [] text = "{\"where\":{\"name\":\"x\"}}"
                         -> Obj([where |-> Obj([name |-> Str("x")])])
      [] OTHER           -> SyntaxError

--------------------------------------------------------------------------
(* ApiGenerator.parseQuery (src/src/apiGenerator.ts) *)

QUERY_OPTS == {"skip", "limit", "sort", "page"}

MalformedQuery == [ok |-> FALSE, error |-> "MalformedQuery"]

\* A plausible slip: the options are picked from the undecoded query object.
ApiGenerator_parseQuery_rawOptions(queryObj) ==
    LET raw == [k \in DOMAIN queryObj |-> JSONparse(queryObj[k])]
    IN  IF \E k \in DOMAIN raw : raw[k] = SyntaxError
        THEN MalformedQuery
        ELSE [ok      |-> TRUE,
              raw     |-> raw,
              options |-> [k \in (DOMAIN queryObj) \cap QUERY_OPTS |-> Str(queryObj[k])],
              where   |-> IF "where" \in DOMAIN raw
                          THEN raw["where"]
                          ELSE Obj(omit(raw, QUERY_OPTS))]

\* A plausible slip: the where key is merged into the predicate like any
\* other key instead of replacing it.
ApiGenerator_parseQuery_noOverride(queryObj) ==
    LET raw == [k \in DOMAIN queryObj |-> JSONparse(queryObj[k])]
    IN  IF \E k \in DOMAIN raw : raw[k] = SyntaxError
        THEN MalformedQuery
        ELSE [ok      |-> TRUE,
              raw     |-> raw,
              options |-> pick(raw, QUERY_OPTS),
              where   |-> Obj(omit(raw, QUERY_OPTS))]

ApiGenerator_parseQuery(queryObj) ==
    LET raw == [k \in DOMAIN queryObj |-> JSONparse(queryObj[k])]
    IN  IF \E k \in DOMAIN raw : raw[k] = SyntaxError
        THEN MalformedQuery
        ELSE [ok      |-> TRUE,
              raw     |-> raw,
              options |-> pick(raw, QUERY_OPTS),
              \* _.get(raw, 'where', dflt): dflt only when raw.where is
              \* undefined, which JSON.parse never returns
              where   |-> IF "where" \in DOMAIN raw
                          THEN raw["where"]
                          ELSE Obj(omit(raw, QUERY_OPTS))]

\* The mapping obtained by JSON-re-encoding each entry of a parse result's
\* predicate and options (an option wins over a predicate entry of the same
\* key, which only a where override can produce).
Reencode(parsed) ==
    LET p == parsed.where.o
        o == parsed.options
    IN  [k \in (DOMAIN p) \cup (DOMAIN o) |->
            IF k \in DOMAIN o THEN JSONstringify(o[k]) ELSE JSONstringify(p[k])]

ParseKeys == {"skip", "where", "foo"}
RawTexts  == {"5", " 5 ", "\"x\"", "null", "{ }", "{\"name\":\"x\"}",
              "{\"skip\":5}", "{\"where\":{\"name\":\"x\"}}", "not-json"}
NoValue   == "<absent>"

QueryMappings ==
    { [k \in {x \in ParseKeys : f[x] # NoValue} |-> f[k]] :
        f \in [ParseKeys -> RawTexts \cup {NoValue}] }

NotParsed == [ok |-> FALSE, error |-> "none"]

ParseInit ==
    /\ pq \in QueryMappings
    /\ pstage = "input"
    /\ pres = NotParsed
    /\ pres2 = NotParsed

ParseIdle ==
    /\ pq = EmptyObject
    /\ pstage = "input"
    /\ pres = NotParsed
    /\ pres2 = NotParsed

Parse ==
    /\ pstage = "input"
    /\ pres' = ApiGenerator_parseQuery(pq)
    /\ pstage' = "parsed"
    /\ UNCHANGED <<pq, pres2>>

Reparse ==
    /\ pstage = "parsed"
    /\ pres.ok
    /\ IsObj(pres.where)
    /\ pres2' = ApiGenerator_parseQuery(Reencode(pres))
    /\ pstage' = "reparsed"
    /\ UNCHANGED <<pq, pres>>

--------------------------------------------------------------------------
(* Configuration: ApiGenerator's constructor (src/src/apiGenerator.ts),    *)
(* route registration and the discovery document (src/unnamed/part_000)    *)

\* _.keys( Diaspora.models ): the registry
allModels == {"Foo", "Foos", "Bar"}
\* names a configuration may mention; "Ghost" is registered nowhere
ConfigNames == allModels \cup {"Ghost"}
\* order in which _.forEach / _.mapValues visit the configured models
ModelOrder == <<"Foo", "Foos", "Bar", "Ghost">>

\* String.prototype.toLowerCase on the model names
toLowerCase(s) ==
    CASE s = "Foo"   -> "foo"
      [] s = "Foos"  -> "foos"
      [] s = "Bar"   -> "bar"
      [] s = "Ghost" -> "ghost"
      [] OTHER       -> s

\* apiDesc === true, or an object that may override singular and plural
DescTrue     == [isTrue |-> TRUE, o |-> EmptyObject]
DescObj(o)   == [isTrue |-> FALSE, o |-> o]
ApiDescs     == {DescTrue,
                 DescObj([singular |-> "items"]),
                 DescObj([plural |-> "items"]),
                 DescObj([plural |-> "foo"])}

\* utils.configureList( configHash.models, allModels ): the configured
\* models, or a ReferenceError when a configured name is not registered
ReferenceError == [threw |-> "ReferenceError"]

configureList(models, registry) ==
    IF \E name \in DOMAIN models : name \notin registry
    THEN ReferenceError
    ELSE models

\* _.defaults( o, dflt ): own keys of o win
defaults(o, dflt) ==
    [k \in (DOMAIN o) \cup (DOMAIN dflt) |-> IF k \in DOMAIN o THEN o[k] ELSE dflt[k]]

\* the callback of _.mapValues in the constructor (the middlewares entry,
\* which no path depends on, is left out)
modelConfiguration(apiDesc, modelName) ==
    LET defaultedApiDesc == IF apiDesc.isTrue THEN EmptyObject ELSE apiDesc.o
        defaulted == defaults(defaultedApiDesc,
                              [singular |-> toLowerCase(modelName),
                               plural   |-> toLowerCase(modelName) \o "s"])
    IN  [singular |-> defaulted["singular"],
         plural   |-> defaulted["plural"],
         model    |-> modelName]

\* the constructor: ReferenceError, or _modelsConfiguration
ApiGenerator_constructor(configHash) ==
    LET configuredModels == configureList(configHash, allModels)
    IN  IF configuredModels = ReferenceError
        THEN ReferenceError
        ELSE [modelName \in DOMAIN configuredModels |->
                 modelConfiguration(configuredModels[modelName], modelName)]

\* the configured model names in visiting order
RECURSIVE InOrder(_, _)
InOrder(names, i) ==
    IF i > Len(ModelOrder) THEN <<>>
    ELSE (IF ModelOrder[i] \in names THEN <<ModelOrder[i]>> ELSE <<>>)
             \o InOrder(names, i + 1)

\* Route registration (module.exports, the _.forEach over configuredModels):
\* per model the singular route, then the plural route.  express answers a
\* request with the first registered route whose path matches.
RECURSIVE routeTable(_, _)
routeTable(table, order) ==
    IF order = <<>> THEN <<>>
    ELSE LET apiDesc == table[Head(order)]
         IN  << [path |-> "/" \o apiDesc.singular, kind |-> "singular", model |-> apiDesc.model],
                [path |-> "/" \o apiDesc.plural,   kind |-> "plural",   model |-> apiDesc.model] >>
             \o routeTable(table, Tail(order))

NoRoute == [path |-> "", kind |-> "none", model |-> ""]

resolve(routes, path) ==
    IF \E i \in 1..Len(routes) : routes[i].path = path
    THEN routes[CHOOSE i \in 1..Len(routes) :
                    /\ routes[i].path = path
                    /\ \A j \in 1..(i - 1) : routes[j].path # path]
    ELSE NoRoute

Put(f, k, v) == [x \in (DOMAIN f) \cup {k} |-> IF x = k THEN v ELSE f[x]]

\* newRouter.get( '', ... ): the response object, filled model by model
RECURSIVE discoveryDocument(_, _, _, _)
discoveryDocument(table, order, baseUrl, response) ==
    IF order = <<>> THEN response
    ELSE LET apiDesc   == table[Head(order)]
             modelName == Head(order)
             single    == "/" \o apiDesc.singular \o "/$ID"
             several   == "/" \o apiDesc.plural
             r1 == Put(response, single,
                       [description  |-> [items |-> "SINGLE", of |-> modelName],
                        parameters   |-> "$ID",
                        canonicalUrl |-> baseUrl \o single])
             r2 == Put(r1, several,
                       [description  |-> [items |-> "SEVERAL", of |-> modelName],
                        canonicalUrl |-> baseUrl \o several])
         IN  discoveryDocument(table, Tail(order), baseUrl, r2)

NotConfigured == [isTrue |-> FALSE, o |-> EmptyObject, configured |-> FALSE]

Configs ==
    { [name \in {x \in ConfigNames : f[x] # NotConfigured} |-> f[name]] :
        f \in [ConfigNames -> ApiDescs \cup {NotConfigured}] }

NoBindings  == [name \in {} |-> NoRoute]
NoDiscovery == [asked |-> FALSE, baseUrl |-> "", response |-> EmptyObject]
BaseUrls    == {"", "/api"}
RequestPaths == {"/foo", "/foos", "/bars", "/items", "/nothing"}

ConfigInit ==
    /\ cfg \in { c \in Configs : "Ghost" \notin DOMAIN c \/ c["Ghost"] = DescTrue }
    /\ cfgState = "unconfigured"
    /\ bindings = NoBindings
    /\ routed = NoRoute
    /\ discovery = NoDiscovery

ConfigIdle ==
    /\ cfg = EmptyObject
    /\ cfgState = "unconfigured"
    /\ bindings = NoBindings
    /\ routed = NoRoute
    /\ discovery = NoDiscovery

\* configuration time: the constructor runs once
Configure ==
    /\ cfgState = "unconfigured"
    /\ LET table == ApiGenerator_constructor(cfg)
       IN  IF table = ReferenceError
           THEN /\ cfgState' = "failed"
                /\ UNCHANGED bindings
           ELSE /\ cfgState' = "ready"
                /\ bindings' = table
    /\ UNCHANGED <<cfg, routed, discovery>>

\* request time: a path is resolved against the registered routes
RouteRequest(path) ==
    /\ cfgState = "ready"
    /\ routed' = resolve(routeTable(bindings, InOrder(DOMAIN bindings, 1)), path)
    /\ UNCHANGED <<cfg, cfgState, bindings, discovery>>

\* GET on the router root, mounted under baseUrl
Discover(baseUrl) ==
    /\ cfgState = "ready"
    /\ discovery' = [asked    |-> TRUE,
                     baseUrl  |-> baseUrl,
                     response |-> discoveryDocument(bindings, InOrder(DOMAIN bindings, 1),
                                                    baseUrl, EmptyObject)]
    /\ UNCHANGED <<cfg, cfgState, bindings, routed>>

--------------------------------------------------------------------------
(* The model layer (Diaspora), an external collaborator of the handlers.   *)
(* An entity is [n, id, attrs]: n its position in the data source, id the  *)
(* identifier clients see, attrs its attribute set.                        *)

MaxId == 2

Entity(n, attrs) == [n |-> n, id |-> ToString(n), attrs |-> attrs]

\* whether an entity satisfies a predicate; the reserved key id addresses
\* the identifier, every other key an attribute.  A predicate that is not
\* an object selects nothing.
Matches(e, query) ==
    /\ IsObj(query)
    /\ \A k \in DOMAIN query.o :
          IF k = "id"
          THEN query.o[k] = Str(e.id)
          ELSE /\ IsObj(e.attrs)
               /\ k \in DOMAIN e.attrs.o
               /\ e.attrs.o[k] = query.o[k]

Matching(st, query) == {e \in st : Matches(e, query)}

\* the single-entity operations act on the first match of the data source
FirstOf(es) == CHOOSE e \in es : \A f \in es : e.n <= f.n

\* a partial update: the attributes named in the update are set, the others kept
Updated(e, update) ==
    [e EXCEPT !.attrs = Obj([k \in (DOMAIN e.attrs.o) \cup (DOMAIN update.o) |->
                                IF k \in DOMAIN update.o THEN update.o[k] ELSE e.attrs.o[k]])]

\* entity.replaceAttributes( update ): in memory, nothing is persisted yet
replaceAttributes(e, update) == [e EXCEPT !.attrs = update]

RECURSIVE Spawned(_, _)
\* spawnMany: one new entity per element of the collection
Spawned(sources, n) ==
    IF sources = <<>> THEN {}
    ELSE {Entity(n, Head(sources))} \cup Spawned(Tail(sources), n + 1)

Settled(st, n, value) == [ok |-> TRUE, store |-> st, nextId |-> n, value |-> value]
Refused == [ok |-> FALSE]

\* What a model-layer call does when it is fulfilled: the new store, the new
\* identifier counter and the value the promise resolves to (a set of
\* entities: empty for undefined, one entity, or the members of a Set).
\* Attribute sets that are not objects are refused (validation is the model
\* layer's).
modelLayer(c, st, n) ==
    LET found == Matching(st, c.query)
    IN  CASE c.op = "find" ->
                Settled(st, n, IF found = {} THEN {} ELSE {FirstOf(found)})
          [] c.op = "findMany" ->
                Settled(st, n, found)
          [] c.op = "update" ->
                IF ~IsObj(c.update) THEN Refused
                ELSE IF found = {} THEN Settled(st, n, {})
                ELSE LET e == FirstOf(found)
                     IN  Settled((st \ {e}) \cup {Updated(e, c.update)}, n,
                                 {Updated(e, c.update)})
          [] c.op = "updateMany" ->
                IF ~IsObj(c.update) THEN Refused
                ELSE Settled((st \ found) \cup {Updated(e, c.update) : e \in found}, n,
                             {Updated(e, c.update) : e \in found})
          [] c.op = "delete" ->
                IF found = {} THEN Settled(st, n, {})
                ELSE Settled(st \ {FirstOf(found)}, n, {})
          [] c.op = "deleteMany" ->
                Settled(st \ found, n, {})
          [] c.op = "spawn.persist" ->
                IF ~IsObj(c.update) THEN Refused
                ELSE Settled(st \cup {Entity(n, c.update)}, n + 1, {Entity(n, c.update)})
          [] c.op = "spawnMany.persist" ->
                IF c.update.t # "arr" \/ \E i \in 1..Len(c.update.a) : ~IsObj(c.update.a[i])
                THEN Refused
                ELSE Settled(st \cup Spawned(c.update.a, n), n + Len(c.update.a),
                             Spawned(c.update.a, n))
          [] c.op = "persist" ->
                IF \E e \in c.ents : ~IsObj(e.attrs) THEN Refused
                ELSE Settled({e \in st : \A h \in c.ents : h.n # e.n} \cup c.ents, n, c.ents)

\* utils.respondError( res, error ): the status for a failure's kind
respondError(kind) == IF kind = "validation" THEN 400 ELSE 500

--------------------------------------------------------------------------
(* The router's handlers (src/unnamed/part_000) *)

\* the local parseQuery of the router: the options and the remaining keys
\* are taken undecoded; only the value of the key query is JSON-decoded, and
\* then replaces the predicate.  Throws what JSON.parse throws.
parseQuery(queryObj) ==
    LET options == pick(queryObj, QUERY_OPTS)
        decoded == IF "query" \in DOMAIN queryObj
                   THEN JSONparse(queryObj["query"].s)
                   ELSE Obj(omit(queryObj, QUERY_OPTS))
    IN  IF decoded = SyntaxError
        THEN [threw |-> TRUE]
        ELSE [threw |-> FALSE, query |-> decoded, options |-> options]

\* _.isEmpty
isEmpty(v) ==
    CASE v.t = "obj" -> DOMAIN v.o = {}
      [] v.t = "arr" -> v.a = <<>>
      [] v.t = "str" -> v.s = ""
      [] OTHER       -> TRUE

\* The lines every handler starts with: the try/catch around parseQuery.
\* outcome "400": the catch branch; "ok": query and options are set.
parsed(r) ==
    LET p == parseQuery(r.query)
    IN  IF p.threw
        THEN [outcome |-> "400"]
        ELSE [outcome |-> "ok", query |-> p.query, options |-> p.options]

\* The singular handlers go on with `if ( req.params[1] ) query.id = ...`.
\* The file is in strict mode: setting a property on a decoded query that is
\* a number, a string or null throws a TypeError out of the handler.
withId(h, r) ==
    IF h.outcome # "ok" \/ r.id = "" THEN h
    ELSE IF IsObj(h.query)
         THEN [h EXCEPT !.query = Obj(Put(h.query.o, "id", Str(r.id)))]
         ELSE [outcome |-> "TypeError"]

NoCall   == [op |-> "none", query |-> Null, update |-> Null, options |-> EmptyObject, ents |-> {}]
NoResult == [state |-> "none"]
NoBody   == [kind |-> "none"]
NoRequest == [route |-> "none", method |-> "none", id |-> "", query |-> EmptyObject, body |-> Null]

Call(op, query, update, options) ==
    [op |-> op, query |-> query, update |-> update, options |-> options, ents |-> {}]

\* res.status( s ).send() / res.json( ... ): one response is written and the
\* handler is through with the request
Respond(status, body, by) ==
    /\ responses' = Append(responses, [status |-> status, body |-> body, by |-> by])
    /\ pc' = "done"
    /\ UNCHANGED <<call, cont, result, ops, held>>

\* a model-layer call is issued and callback k waits for its promise
Invoke(c, k) ==
    /\ call' = c
    /\ cont' = k
    /\ pc' = "awaiting"
    /\ ops' = Append(ops, c.op)
    /\ UNCHANGED <<responses, result>>

\* the catch branch of the try around parseQuery
BadRequest == Respond(400, [kind |-> "text"], "handler")
\* an exception leaves the handler: the router's error handling answers 500
Thrown == Respond(500, [kind |-> "text"], "router")

Fulfilled(k) == pc = "settled" /\ cont = k /\ result.state = "fulfilled"

----
\* handlers._get
_get ==
    /\ pc = "routed" /\ req.route = "singular" /\ req.method = "GET"
    /\ LET h == withId(parsed(req), req)
       IN  CASE h.outcome = "400"       -> BadRequest
             [] h.outcome = "TypeError" -> Thrown
             [] OTHER -> Invoke(Call("find", h.query, Null, h.options), "_get.then") /\ UNCHANGED held
    /\ UNCHANGED <<store, nextId, store0, req>>

_get_then ==
    /\ Fulfilled("_get.then")
    /\ IF result.value = {}
       THEN Respond(404, NoBody, "handler")
       ELSE Respond(200, [kind |-> "entity", ents |-> result.value], "handler")
    /\ UNCHANGED <<store, nextId, store0, req>>

\* handlers._post
_post ==
    /\ pc = "routed" /\ req.route = "singular" /\ req.method = "POST"
    /\ LET h == withId(parsed(req), req)
       IN  CASE h.outcome = "400"       -> BadRequest
             [] h.outcome = "TypeError" -> Thrown
             [] OTHER ->
                  /\ IF isEmpty(h.query)
                     THEN Invoke(Call("spawn.persist", Null, req.body, EmptyObject), "_post.created")
                     ELSE Invoke(Call("update", h.query, req.body, h.options), "_post.updated")
                  /\ UNCHANGED held
    /\ UNCHANGED <<store, nextId, store0, req>>

_post_created ==
    /\ Fulfilled("_post.created")
    /\ Respond(201, [kind |-> "entity", ents |-> result.value], "handler")
    /\ UNCHANGED <<store, nextId, store0, req>>

_post_updated ==
    /\ Fulfilled("_post.updated")
    /\ IF result.value = {}
       THEN Respond(404, NoBody, "handler")
       ELSE Respond(200, [kind |-> "entity", ents |-> result.value], "handler")
    /\ UNCHANGED <<store, nextId, store0, req>>

\* handlers._put
_put ==
    /\ pc = "routed" /\ req.route = "singular" /\ req.method = "PUT"
    /\ LET h == withId(parsed(req), req)
       IN  CASE h.outcome = "400"       -> BadRequest
             [] h.outcome = "TypeError" -> Thrown
             [] OTHER ->
                  /\ IF isEmpty(h.query)
                     THEN Invoke(Call("spawn.persist", Null, req.body, EmptyObject), "_put.created")
                     ELSE Invoke(Call("find", h.query, Null, h.options), "_put.found")
                  /\ UNCHANGED held
    /\ UNCHANGED <<store, nextId, store0, req>>

_put_created ==
    /\ Fulfilled("_put.created")
    /\ Respond(201, [kind |-> "entity", ents |-> result.value], "handler")
    /\ UNCHANGED <<store, nextId, store0, req>>

\* A plausible slip: the update is merged into the entity instead of
\* replacing its attributes.
_put_found_merging ==
    /\ Fulfilled("_put.found")
    /\ IF result.value = {}
       THEN Respond(404, NoBody, "handler")
       ELSE /\ held' = {IF IsObj(req.body) THEN Updated(e, req.body) ELSE e : e \in result.value}
            /\ call' = [NoCall EXCEPT !.op = "persist",
                                      !.ents = {IF IsObj(req.body) THEN Updated(e, req.body) ELSE e
                                                   : e \in result.value}]
            /\ cont' = "_put.persisted"
            /\ pc' = "awaiting"
            /\ ops' = Append(ops, "persist")
            /\ UNCHANGED <<responses, result>>
    /\ UNCHANGED <<store, nextId, store0, req>>

_put_found ==
    /\ Fulfilled("_put.found")
    /\ IF result.value = {}
       THEN Respond(404, NoBody, "handler")
       ELSE /\ held' = {replaceAttributes(e, req.body) : e \in result.value}
            /\ call' = [NoCall EXCEPT !.op = "persist",
                                      !.ents = {replaceAttributes(e, req.body) : e \in result.value}]
            /\ cont' = "_put.persisted"
            /\ pc' = "awaiting"
            /\ ops' = Append(ops, "persist")
            /\ UNCHANGED <<responses, result>>
    /\ UNCHANGED <<store, nextId, store0, req>>

_put_persisted ==
    /\ Fulfilled("_put.persisted")
    /\ Respond(200, [kind |-> "entity", ents |-> result.value], "handler")
    /\ UNCHANGED <<store, nextId, store0, req>>

\* handlers._delete
_delete ==
    /\ pc = "routed" /\ req.route = "singular" /\ req.method = "DELETE"
    /\ LET h == withId(parsed(req), req)
       IN  CASE h.outcome = "400"       -> BadRequest
             [] h.outcome = "TypeError" -> Thrown
             [] OTHER -> Invoke(Call("delete", h.query, Null, h.options), "_delete.then") /\ UNCHANGED held
    /\ UNCHANGED <<store, nextId, store0, req>>

_delete_then ==
    /\ Fulfilled("_delete.then")
    /\ Respond(200, NoBody, "handler")
    /\ UNCHANGED <<store, nextId, store0, req>>

\* the status of a response that carries a Set: 404 once it is empty
SetStatus(set) == IF Cardinality(set) = 0 THEN 404 ELSE 200

\* handlers.get
get ==
    /\ pc = "routed" /\ req.route = "plural" /\ req.method = "GET"
    /\ LET h == parsed(req)
       IN  CASE h.outcome = "400" -> BadRequest
             [] OTHER -> Invoke(Call("findMany", h.query, Null, h.options), "get.then") /\ UNCHANGED held
    /\ UNCHANGED <<store, nextId, store0, req>>

\* A plausible slip: an empty Set is answered like any other.
get_then_always200 ==
    /\ Fulfilled("get.then")
    /\ Respond(200, [kind |-> "collection", ents |-> result.value], "handler")
    /\ UNCHANGED <<store, nextId, store0, req>>

get_then ==
    /\ Fulfilled("get.then")
    /\ Respond(SetStatus(result.value), [kind |-> "collection", ents |-> result.value], "handler")
    /\ UNCHANGED <<store, nextId, store0, req>>

\* A plausible slip: the emptiness of the predicate is not looked at and the
\* body is always created.
post_alwaysCreates ==
    /\ pc = "routed" /\ req.route = "plural" /\ req.method = "POST"
    /\ LET h == parsed(req)
       IN  CASE h.outcome = "400" -> BadRequest
             [] OTHER ->
                  /\ Invoke(Call("spawnMany.persist", Null, req.body, EmptyObject), "post.created")
                  /\ UNCHANGED held
    /\ UNCHANGED <<store, nextId, store0, req>>

\* handlers.post
post ==
    /\ pc = "routed" /\ req.route = "plural" /\ req.method = "POST"
    /\ LET h == parsed(req)
       IN  CASE h.outcome = "400" -> BadRequest
             [] OTHER ->
                  /\ IF isEmpty(h.query)
                     THEN Invoke(Call("spawnMany.persist", Null, req.body, EmptyObject), "post.created")
                     ELSE Invoke(Call("updateMany", h.query, req.body, h.options), "post.updated")
                  /\ UNCHANGED held
    /\ UNCHANGED <<store, nextId, store0, req>>

post_created ==
    /\ Fulfilled("post.created")
    /\ Respond(201, [kind |-> "collection", ents |-> result.value], "handler")
    /\ UNCHANGED <<store, nextId, store0, req>>

post_updated ==
    /\ Fulfilled("post.updated")
    /\ Respond(SetStatus(result.value), [kind |-> "collection", ents |-> result.value], "handler")
    /\ UNCHANGED <<store, nextId, store0, req>>

\* handlers.put
put ==
    /\ pc = "routed" /\ req.route = "plural" /\ req.method = "PUT"
    /\ LET h == parsed(req)
       IN  CASE h.outcome = "400" -> BadRequest
             [] OTHER ->
                  /\ IF isEmpty(h.query)
                     THEN Invoke(Call("spawnMany.persist", Null, req.body, EmptyObject), "put.created")
                     ELSE Invoke(Call("findMany", h.query, Null, h.options), "put.found")
                  /\ UNCHANGED held
    /\ UNCHANGED <<store, nextId, store0, req>>

put_created ==
    /\ Fulfilled("put.created")
    /\ Respond(201, [kind |-> "collection", ents |-> result.value], "handler")
    /\ UNCHANGED <<store, nextId, store0, req>>

put_found ==
    /\ Fulfilled("put.found")
    /\ held' = {replaceAttributes(e, req.body) : e \in result.value}
    /\ call' = [NoCall EXCEPT !.op = "persist",
                              !.ents = {replaceAttributes(e, req.body) : e \in result.value}]
    /\ cont' = "put.persisted"
    /\ pc' = "awaiting"
    /\ ops' = Append(ops, "persist")
    /\ UNCHANGED <<responses, result>>
    /\ UNCHANGED <<store, nextId, store0, req>>

put_persisted ==
    /\ Fulfilled("put.persisted")
    /\ Respond(SetStatus(result.value), [kind |-> "collection", ents |-> result.value], "handler")
    /\ UNCHANGED <<store, nextId, store0, req>>

\* A plausible slip: the plural route calls the single-entity delete.
delete_single ==
    /\ pc = "routed" /\ req.route = "plural" /\ req.method = "DELETE"
    /\ LET h == parsed(req)
       IN  CASE h.outcome = "400" -> BadRequest
             [] OTHER -> Invoke(Call("delete", h.query, Null, h.options), "delete.then") /\ UNCHANGED held
    /\ UNCHANGED <<store, nextId, store0, req>>

\* handlers.delete
delete ==
    /\ pc = "routed" /\ req.route = "plural" /\ req.method = "DELETE"
    /\ LET h == parsed(req)
       IN  CASE h.outcome = "400" -> BadRequest
             [] OTHER -> Invoke(Call("deleteMany", h.query, Null, h.options), "delete.then") /\ UNCHANGED held
    /\ UNCHANGED <<store, nextId, store0, req>>

delete_then ==
    /\ Fulfilled("delete.then")
    /\ Respond(200, NoBody, "handler")
    /\ UNCHANGED <<store, nextId, store0, req>>

\* A plausible slip: the promise of the persist that follows a find is not
\* returned from the callback, so its rejection never reaches the catch.
catch_missesNested ==
    /\ pc = "settled"
    /\ result.state = "rejected"
    /\ Len(ops) = 1
    /\ Respond(respondError(result.kind), [kind |-> "error"], "respondError")
    /\ UNCHANGED <<store, nextId, store0, req>>

\* .catch( _.partial( respondError, res ) ): every chain ends with it, and a
\* rejection of a promise returned from a callback reaches it as well
catch ==
    /\ pc = "settled"
    /\ result.state = "rejected"
    /\ Respond(respondError(result.kind), [kind |-> "error"], "respondError")
    /\ UNCHANGED <<store, nextId, store0, req>>

----
\* The model layer settles the pending call: it fulfils it ...
Fulfil ==
    /\ pc = "awaiting"
    /\ LET m == modelLayer(call, store, nextId)
       IN  /\ m.ok
           /\ m.nextId <= MaxId + 1
           /\ store' = m.store
           /\ nextId' = m.nextId
           /\ result' = [state |-> "fulfilled", value |-> m.value]
    /\ pc' = "settled"
    /\ UNCHANGED <<store0, req, cont, call, held, responses, ops>>

\* ... or rejects it: a validation failure, or any other failure
Reject(kind) ==
    /\ pc = "awaiting"
    /\ result' = [state |-> "rejected", kind |-> kind]
    /\ pc' = "settled"
    /\ UNCHANGED <<store, nextId, store0, req, cont, call, held, responses, ops>>

----
\* Requests

S(text) == Str(text)

Queries ==
    { EmptyObject,
      [limit |-> S("1")],
      [name |-> S("a")],
      [name |-> S("a"), limit |-> S("1")],
      [query |-> S("{}")],
      [query |-> S("{\"name\":\"b\"}")],
      [query |-> S("5")],
      [query |-> S("not-json")] }

PathIds == {"", "1"}

ObjectBodies == { Obj([name |-> S("b")]),
                  Obj([name |-> S("a"), age |-> Num(5)]) }
ListBodies   == { Arr(<< Obj([name |-> S("a")]), Obj([name |-> S("a"), age |-> Num(5)]) >>) }

Requests ==
    { r \in [route  : {"singular", "plural"},
             method : {"GET", "POST", "PUT", "DELETE"},
             id     : PathIds,
             query  : Queries,
             body   : ObjectBodies \cup ListBodies \cup {Null}] :
        /\ r.route = "plural" => r.id = ""
        /\ (r.body = Null) <=> (r.method \in {"GET", "DELETE"}) }

\* a request arrives and the router hands it to the handler bound to its
\* route and method
Receive(r) ==
    /\ pc = "idle"
    /\ req' = r
    /\ pc' = "routed"
    /\ UNCHANGED <<store, nextId, store0, cont, call, result, held, responses, ops>>

\* the request is over: nothing of it is kept but the store
Close ==
    /\ pc = "done"
    /\ req' = NoRequest
    /\ store0' = store
    /\ pc' = "idle"
    /\ cont' = "none"
    /\ call' = NoCall
    /\ result' = NoResult
    /\ held' = {}
    /\ responses' = <<>>
    /\ ops' = <<>>
    /\ UNCHANGED <<store, nextId>>

RequestInit ==
    /\ store = {}
    /\ nextId = 1
    /\ store0 = {}
    /\ req = NoRequest
    /\ pc = "idle"
    /\ cont = "none"
    /\ call = NoCall
    /\ result = NoResult
    /\ held = {}
    /\ responses = <<>>
    /\ ops = <<>>

\* a step of the handler bound to the request, or of one of its callbacks
HandlerStep ==
    \/ _get \/ _get_then
    \/ _post \/ _post_created \/ _post_updated
    \/ _put \/ _put_created \/ _put_found \/ _put_persisted
    \/ _delete \/ _delete_then
    \/ get \/ get_then
    \/ post \/ post_created \/ post_updated
    \/ put \/ put_created \/ put_found \/ put_persisted
    \/ delete \/ delete_then
    \/ catch

----
\* Specifications

Init == RequestInit /\ ParseIdle /\ ConfigIdle

Next ==
    \/ (\E r \in Requests : Receive(r)) /\ UNCHANGED <<parseVars, configVars>>
    \/ HandlerStep /\ UNCHANGED <<parseVars, configVars>>
    \/ Close /\ UNCHANGED <<parseVars, configVars>>
    \/ Fulfil /\ UNCHANGED <<parseVars, configVars>>
    \/ (\E kind \in {"validation", "other"} : Reject(kind)) /\ UNCHANGED <<parseVars, configVars>>

Spec == Init /\ [][Next]_vars

InitParse == ParseInit /\ ConfigIdle /\ RequestInit

NextParse ==
    \/ Parse /\ UNCHANGED <<configVars, reqVars>>
    \/ Reparse /\ UNCHANGED <<configVars, reqVars>>

SpecParse == InitParse /\ [][NextParse]_vars

InitConfig == ConfigInit /\ ParseIdle /\ RequestInit

NextConfig ==
    \/ Configure /\ UNCHANGED <<parseVars, reqVars>>
    \/ (\E path \in RequestPaths : RouteRequest(path)) /\ UNCHANGED <<parseVars, reqVars>>
    \/ (\E baseUrl \in BaseUrls : Discover(baseUrl)) /\ UNCHANGED <<parseVars, reqVars>>

SpecConfig == InitConfig /\ [][NextConfig]_vars

--------------------------------------------------------------------------
(* Properties.  They are stated on the request, the store before it        *)
(* (store0) and the store after it, not on the handlers' own variables.    *)

Answered   == responses # <<>>
Status     == responses[1].status
Body       == responses[1].body
HandlerRan == pc \notin {"idle", "routed"}
IsWrite    == req.method \in {"POST", "PUT"}
\* the request took the creating branch: its first model-layer call spawns
CreateBranch == ops # <<>> /\ ops[1] \in {"spawn.persist", "spawnMany.persist"}
IdPresent  == req.route = "singular" /\ req.id # ""

\* The predicate the handlers work with: the decoded value of the key query
\* when the query string has one, else the query string without the option
\* keys; on the singular route a present identifier is added under id.
DecodedPredicate ==
    IF "query" \in DOMAIN req.query
    THEN JSONparse(req.query["query"].s)
    ELSE Obj([k \in (DOMAIN req.query) \ {"skip", "limit", "sort", "page"} |-> req.query[k]])

TargetPredicate ==
    IF IdPresent /\ IsObj(DecodedPredicate)
    THEN Obj(Put(DecodedPredicate.o, "id", Str(req.id)))
    ELSE DecodedPredicate

\* empty in the sense of _.isEmpty: an object without keys, and also a
\* decoded number or null
EmptyTarget ==
    /\ ~IdPresent
    /\ DecodedPredicate # SyntaxError
    /\ \/ IsObj(DecodedPredicate) /\ DOMAIN DecodedPredicate.o = {}
       \/ DecodedPredicate.t \in {"num", "null"}

Targets == Matching(store0, TargetPredicate)
Ids(st) == {e.id : e \in st}

PartiallyUpdated(e, after, b) ==
    /\ after.n = e.n /\ after.id = e.id
    /\ DOMAIN after.attrs.o = (DOMAIN e.attrs.o) \cup (DOMAIN b.o)
    /\ \A k \in DOMAIN b.o : after.attrs.o[k] = b.o[k]
    /\ \A k \in (DOMAIN e.attrs.o) \ (DOMAIN b.o) : after.attrs.o[k] = e.attrs.o[k]

\* the entities a singular request acts on (the first match) and a plural
\* request acts on (every match)
Acted == IF req.route = "plural" \/ Targets = {} THEN Targets ELSE {FirstOf(Targets)}

\* (C2) A PUT with a non-empty predicate that is answered 200 has replaced the
\* whole attribute set of the entity (singular) or of every matched entity
\* (plural) by the request body, attributes absent from the body being
\* cleared; a POST with a non-empty predicate that is answered 200 has
\* changed only the attributes the body names.  No other entity changes.
C2_PutReplacesPostMerges ==
    (pc = "done" /\ IsWrite /\ ~CreateBranch /\ Status = 200) =>
        /\ Acted # {}
        /\ \A e \in store0 \ Acted : e \in store
        /\ Cardinality(store) = Cardinality(store0)
        /\ \A e \in Acted : \E after \in store :
              /\ after.n = e.n
              /\ after \in Body.ents
              /\ IF req.method = "PUT"
                 THEN after.attrs = req.body
                 ELSE PartiallyUpdated(e, after, req.body)

C2_Witness ==
    /\ pc = "done" /\ req.method = "PUT" /\ req.route = "singular"
    /\ ~CreateBranch /\ Status = 200
    /\ \E e \in Acted : "age" \in DOMAIN e.attrs.o
    /\ "age" \notin DOMAIN req.body.o
    /\ \A e \in store : "age" \notin DOMAIN e.attrs.o

\* (C3) A GET whose lookup is fulfilled is answered 404 exactly when no entity
\* matches the predicate and 200 otherwise.  The singular 404 has no body;
\* the plural 404 carries the empty collection.  With a match the body is the
\* entity (singular) or the collection of every matching entity (plural).
C3_GetNotFound ==
    (pc = "done" /\ req.method = "GET" /\ result.state = "fulfilled") =>
        /\ Status = 404 <=> Targets = {}
        /\ Status # 404 => Status = 200
        /\ store = store0
        /\ IF req.route = "singular"
           THEN IF Targets = {}
                THEN Body = [kind |-> "none"]
                ELSE Body.kind = "entity" /\ Body.ents = Acted
           ELSE Body.kind = "collection" /\ Body.ents = Targets

C3_Witness ==
    /\ pc = "done" /\ req.method = "GET" /\ req.route = "plural"
    /\ result.state = "fulfilled"
    /\ Status = 404
    /\ Body = [kind |-> "collection", ents |-> {}]
    /\ store # {}

C5_UndecodableValueIs400 ==
    (pc = "done" /\ \E k \in DOMAIN req.query : JSONparse(req.query[k].s) = SyntaxError)
        => Status = 400

\* (C10) Every request ends in exactly one response.  While no model-layer
\* call is pending the handler or one of its callbacks can always take the
\* next step; a request that is over has exactly one response, written by
\* the generic error responder if the last call was rejected and by the
\* callback (200, 201 or 404) if it was fulfilled; never two.  The plural PUT
\* with a non-empty predicate is answered by its callback only after the
\* persist of the matched set has been fulfilled.
C10_ExactlyOneResponse ==
    /\ Len(responses) <= 1
    /\ pc = "done" => Len(responses) = 1
    /\ pc \in {"idle", "routed", "awaiting"} => responses = <<>>
    /\ pc \in {"routed", "settled"} => ENABLED HandlerStep
    /\ (pc = "done" /\ result.state = "rejected") =>
          responses[1].by = "respondError" /\ Status \in {400, 500}
    /\ (pc = "done" /\ result.state = "fulfilled") =>
          responses[1].by = "handler" /\ Status \in {200, 201, 404}
    /\ (/\ pc = "done" /\ req.route = "plural" /\ req.method = "PUT"
        /\ ~CreateBranch /\ responses[1].by = "handler" /\ Status # 400) =>
          /\ ops = <<"findMany", "persist">>
          /\ result.state = "fulfilled"
          /\ \A e \in Targets : replaceAttributes(e, req.body) \in store

C10_Witness ==
    /\ pc = "done" /\ req.method = "PUT" /\ req.route = "singular"
    /\ ops = <<"find", "persist">>
    /\ result.state = "rejected"
    /\ responses = << [status |-> 500, body |-> [kind |-> "error"], by |-> "respondError"] >>

----
\* Properties of ApiGenerator.parseQuery (SpecParse)

AllDecode == \A k \in DOMAIN pq : JSONparse(pq[k]) # SyntaxError
Reserved  == {"where", "skip", "limit", "sort", "page"}

\* (C6) When every value decodes, the options are exactly the decoded entries
\* under skip, limit, sort and page, and the predicate is the decoded entries
\* of all other keys, unless the key where is present: then the predicate is
\* the decoded value of where and the other non-option keys are ignored.  The
\* empty mapping gives an empty predicate and empty options.
C6_ParsePartitions ==
    (pstage # "input" /\ AllDecode) =>
        /\ pres.ok
        /\ DOMAIN pres.options = (DOMAIN pq) \cap {"skip", "limit", "sort", "page"}
        /\ \A k \in DOMAIN pres.options : pres.options[k] = JSONparse(pq[k])
        /\ IF "where" \in DOMAIN pq
           THEN pres.where = JSONparse(pq["where"])
           ELSE /\ pres.where.t = "obj"
                /\ DOMAIN pres.where.o = (DOMAIN pq) \ {"skip", "limit", "sort", "page"}
                /\ \A k \in DOMAIN pres.where.o : pres.where.o[k] = JSONparse(pq[k])
        /\ pq = EmptyObject => pres.options = EmptyObject /\ pres.where = Obj(EmptyObject)

C6_Witness ==
    /\ pstage = "parsed"
    /\ DOMAIN pq = {"skip", "where", "foo"}
    /\ pq["skip"] = " 5 "
    /\ pres.ok
    /\ pres.options = [skip |-> Num(5)]
    /\ pres.where = Obj([name |-> Str("x")])

\* (C7, as the claim states it) Parsing the JSON-re-encoded predicate and
\* options of a parse result gives the same predicate and the same options,
\* also when the predicate came from a where override and holds a key named
\* where, skip, limit, sort or page.
C7_ReparseIsIdentity ==
    pstage = "reparsed" =>
        /\ pres2.ok
        /\ pres2.where = pres.where
        /\ pres2.options = pres.options

\* (C7, amended) Parsing the JSON-re-encoded predicate and options of a parse
\* result gives the same predicate and the same options, provided the
\* predicate is an object with no key named where, skip, limit, sort or page
\* (which only a where override can give it).
C7_ReparseIsIdentityUnlessReserved ==
    (pstage = "reparsed" /\ (DOMAIN pres.where.o) \cap Reserved = {}) =>
        /\ pres2.ok
        /\ pres2.where = pres.where
        /\ pres2.options = pres.options

C7_Witness ==
    /\ pstage = "reparsed"
    /\ DOMAIN pq = {"skip", "where", "foo"}
    /\ pq["skip"] = " 5 "
    /\ pres.where = Obj([name |-> Str("x")])
    /\ Reencode(pres) = [skip |-> "5", name |-> "\"x\""]
    /\ pres2.where = pres.where

\* One value that is not JSON, under any key, fails the whole parse.
MalformedOnAnyBadValue ==
    (pstage # "input" /\ ~AllDecode) => pres = MalformedQuery

----
\* Properties of the configuration (SpecConfig)

PathsOf(b) == {b.singular, b.plural}

\* (C8) In every binding table configuration produces, no singular or plural
\* path of one model equals a singular or plural path of another: a
\* configuration whose paths collide does not become ready, and no request is
\* routed against colliding bindings.
C8_PathsPairwiseDistinct ==
    cfgState = "ready" =>
        \A m1 \in DOMAIN bindings : \A m2 \in DOMAIN bindings :
            m1 # m2 => PathsOf(bindings[m1]) \cap PathsOf(bindings[m2]) = {}

\* (C9) The discovery document holds, for every configured model, exactly one
\* singular and one plural entry, 2 x the number of configured models in
\* all, and each entry's canonicalUrl is the mount path followed by the
\* entry's route name.
C9_DiscoveryListsEveryModel ==
    discovery.asked =>
        LET doc == discovery.response
        IN  /\ Cardinality(DOMAIN doc) = 2 * Cardinality(DOMAIN bindings)
            /\ \A m \in DOMAIN bindings :
                  /\ Cardinality({r \in DOMAIN doc :
                        doc[r].description = [items |-> "SINGLE", of |-> m]}) = 1
                  /\ Cardinality({r \in DOMAIN doc :
                        doc[r].description = [items |-> "SEVERAL", of |-> m]}) = 1
            /\ \A r \in DOMAIN doc : doc[r].canonicalUrl = discovery.baseUrl \o r

==========================================================================
